---- MODULE Spec2Model ----
(***************************************************************************)
(* Off the Charts: the scoring and appeal gateways (response parsing), the *)
(* deterministic daily selector and the two-adjective game state machine.  *)
(*                                                                         *)
(* Numbers that JavaScript holds as doubles are kept in tenths (an integer *)
(* n stands for n/10), so that Math.round and Math.floor act on fractions. *)
(* Texts are sequences of string tokens; <<>> is the empty string.         *)
(***************************************************************************)
EXTENDS Integers, Sequences, FiniteSets, TLC

VARIABLES
    gwPc,        \* gateway: "call" before the handler ran, "done" after
    gwEndpoint,  \* gateway: which POST handler the request is for
    gwFields,    \* gateway: TRUE when the request carries its required string fields
    gwOrig,      \* gateway: <<originalScore1, originalScore2>> of the request, in tenths
    gwReply,     \* gateway: what the text-generation backend answers
    gwOut,       \* gateway: the handler's HTTP response
    pkPc,        \* selector: "call" / "done"
    pkArgs,      \* selector: [key, count, pool] of the call
    pkOut,       \* selector: the returned sequence
    pkPrev,      \* selector: the result of the previous call with the same arguments
    state,       \* game: the hook's GameState
    submitting,  \* game: Game.submitting
    awaitingNextCategory, \* game: Game.awaitingNextCategory
    currentInput,\* game: the text in the input box
    inflight,    \* game: the scoring request awaiting its reply, or NoRequest
    timers,      \* game: number of pending setTimeout(advanceTurn, 500) callbacks
    appealOpenFor,    \* game: Game.appealOpenFor, the slot the appeal dialog is open for
    appealSubmitting, \* game: Game.appealSubmitting
    appealInflight,   \* game: the appeal requests awaiting their replies
    appealError,      \* game: Game.appealError, the message the appeal dialog shows
    history,     \* game: what the properties need to remember of the current game
    ldPc,        \* load: "call" before the mount effect ran, "done" after
    ldStored,    \* load: what localStorage holds under the game's key
    ldToday,     \* load: the day of the clock (todayKey() without its version)
    ldOut,       \* load: the state the mount effect sets
    atPc,        \* advanceTurn: "call" / "done"
    atPrev,      \* advanceTurn: the 5-guess state it is applied to
    atNext,      \* advanceTurn: the currentTurnIndex it sets
    state3,      \* 3x3 game: the hook's GameState
    submitting3, \* 3x3 game: the component's submitting
    awaitingNextCategory3, \* 3x3 game: the component's awaitingNextCategory
    inflight3,   \* 3x3 game: the scoring request awaiting its reply, or NoRequest3
    resets3      \* 3x3 game: presses of the debug buttons so far

gwVars == <<gwPc, gwEndpoint, gwFields, gwOrig, gwReply, gwOut>>
pkVars == <<pkPc, pkArgs, pkOut, pkPrev>>
appealVars == <<appealOpenFor, appealSubmitting, appealInflight, appealError>>
gameVars == <<state, submitting, awaitingNextCategory, currentInput,
              inflight, timers, appealVars, history>>
ldVars == <<ldPc, ldStored, ldToday, ldOut>>
at5Vars == <<atPc, atPrev, atNext>>
game3Vars == <<state3, submitting3, awaitingNextCategory3, inflight3, resets3>>
atVars == <<at5Vars, game3Vars>>
hookVars == <<ldVars, atVars>>
vars == <<gwVars, pkVars, gameVars, hookVars>>

\* ---------------------------------------------------------------------
\* Arithmetic of JavaScript numbers, in tenths
\* ---------------------------------------------------------------------

Max(a, b) == IF a >= b THEN a ELSE b
Min(a, b) == IF a <= b THEN a ELSE b

\* floor of a/b for b > 0, whatever the sign of a
FloorDiv(a, b) == IF a >= 0 THEN a \div b ELSE -(((-a) + b - 1) \div b)

\* Math.round(x): the nearest integer, halves rounded towards +infinity.
\* Argument and result in tenths.
MathRound(x) == FloorDiv(x + 5, 10) * 10

\* Math.floor(x), argument and result in tenths.
MathFloor(x) == FloorDiv(x, 10) * 10

\* ---------------------------------------------------------------------
\* The backend's reply, as text
\* ---------------------------------------------------------------------

\* Bounds of the model
MaxDigits == 2     \* longest digit run written in a numeric field
MaxOrig == 11      \* largest original score a request carries

DigitChars == {0, 1, 5, 9}

DigitRuns == UNION {[1..n -> DigitChars] : n \in 1..MaxDigits}

\* A numeric field as the reply writes it: absent, a number literal
\* (optional minus, a digit run, optionally ".5"), or a quoted string.
AbsentField == [kind |-> "absent", neg |-> FALSE, digits |-> <<>>, half |-> FALSE]
OtherField == [kind |-> "other", neg |-> FALSE, digits |-> <<>>, half |-> FALSE]
NumFields == [kind : {"num"}, neg : BOOLEAN, digits : DigitRuns, half : BOOLEAN]
ScoreFields == {AbsentField, OtherField} \cup NumFields

\* The short fields: absent, one digit, or "10"
SmallFields ==
    {AbsentField} \cup [kind : {"num"}, neg : {FALSE}, digits : [1..1 -> DigitChars] \cup {<<1, 0>>},
                        half : {FALSE}]

\* A reasoning field: absent or a quoted string
AbsentText == [kind |-> "absent", text |-> <<>>]
TextFields == {AbsentText} \cup [kind : {"str"}, text : {<<>>, <<"fits">>}]

\* form: "json" the reply is one JSON object; "leading"/"trailing" the object
\* comes with prose before/after it; "empty" the reply is the empty string;
\* "throw" the backend call rejects.
Forms == {"json", "leading", "trailing", "empty", "throw"}

RECURSIVE DigitsValue(_)
DigitsValue(ds) ==
    IF ds = <<>> THEN 0 ELSE DigitsValue(SubSeq(ds, 1, Len(ds) - 1)) * 10 + ds[Len(ds)]

\* Number(text) of a literal, in tenths
LiteralValue(f) ==
    (IF f.neg THEN -1 ELSE 1) * (DigitsValue(f.digits) * 10 + (IF f.half THEN 5 ELSE 0))

\* JSON's number grammar forbids a leading zero before another digit
JsonNumberOk(f) == f.kind = "num" => (Len(f.digits) = 1 \/ f.digits[1] # 0)

DigitTok(d) ==
    CASE d = 0 -> "0" [] d = 1 -> "1" [] d = 2 -> "2" [] d = 3 -> "3" [] d = 4 -> "4"
      [] d = 5 -> "5" [] d = 6 -> "6" [] d = 7 -> "7" [] d = 8 -> "8" [] OTHER -> "9"

RECURSIVE DigitToks(_)
DigitToks(ds) == IF ds = <<>> THEN <<>> ELSE <<DigitTok(Head(ds))>> \o DigitToks(Tail(ds))

RenderScore(name, f) ==
    CASE f.kind = "absent" -> <<>>
      [] f.kind = "other" -> <<name, ":", "\"", "high", "\"">>
      [] OTHER -> <<name, ":">> \o (IF f.neg THEN <<"-">> ELSE <<>>) \o DigitToks(f.digits)
                    \o (IF f.half THEN <<".", "5">> ELSE <<>>)

RenderText(name, f) ==
    IF f.kind = "absent" THEN <<>> ELSE <<name, ":", "\"">> \o f.text \o <<"\"">>

RenderAccepted(a) == IF a = "absent" THEN <<>> ELSE <<"accepted", ":", a>>

\* The raw text of a reply (route.ts:48, response.choices[0]?.message?.content)
RawText(rep) ==
    IF rep.form \in {"empty", "throw"} THEN <<>>
    ELSE (IF rep.form = "leading" THEN <<"Sure,", "here:">> ELSE <<>>)
         \o <<"{">> \o RenderScore("score1", rep.s1) \o RenderScore("score2", rep.s2)
         \o RenderScore("favoriteIndex", rep.fav) \o RenderAccepted(rep.acc)
         \o RenderText("reasoning1", rep.r1) \o RenderText("reasoning2", rep.r2) \o <<"}">>
         \o (IF rep.form = "trailing" THEN <<"Hope", "that", "helps">> ELSE <<>>)

\* JSON.parse(raw) succeeds
JsonParses(rep) ==
    /\ rep.form = "json"
    /\ JsonNumberOk(rep.s1) /\ JsonNumberOk(rep.s2) /\ JsonNumberOk(rep.fav)

\* typeof parsed.<field> === "number"
IsJsonNumber(f) == f.kind = "num"

\* raw.match(/"<field>"\s*:\s*(\d)/i): the field is followed by a digit
RegexMatches(f) == f.kind = "num" /\ ~f.neg

\* Number(match[1]) for the one-digit group (\d), in tenths
FirstDigit(f) == f.digits[1] * 10

\* Number(match[1]) for the greedy group (\d+), in tenths
DigitRun(f) == DigitsValue(f.digits) * 10

\* raw.match(/"reasoning"\s*:\s*"([\s\S]*?)"\s*}?$/i): the reasoning string
\* has to close at the end of the text
AnchoredTextMatches(rep, f) == f.kind = "str" /\ rep.form \in {"json", "leading"}

\* raw.match(/"reasoningN"\s*:\s*"([\s\S]*?)"/i)
TextMatches(f) == f.kind = "str"

\* ---------------------------------------------------------------------
\* Appeal gateway: parseAppealResponse, single and dual
\* ---------------------------------------------------------------------

NoFavorite == {}

Response(status, s1, s2, r1, r2, acc, fav) ==
    [status |-> status, score1 |-> s1, score2 |-> s2, reasoning1 |-> r1,
     reasoning2 |-> r2, accepted |-> acc, favoriteIndex |-> fav]

ErrorResponse(status) == Response(status, 0, 0, <<>>, <<>>, FALSE, NoFavorite)

\* The clamp without its cap at 10: Math.max(originalScore, Math.round(x))
ClampAppealNoCap(orig, x) == Max(orig, MathRound(x))

\* Math.min(10, Math.max(originalScore, Math.round(x)))
ClampAppeal(orig, x) == Min(100, Max(orig, MathRound(x)))

\* parsed.reasoning?.toString() || ""
JsonText(f) == IF f.kind = "str" THEN f.text ELSE <<>>

\* parseAppealResponse(raw, originalScore) of the single-adjective route
ParseAppealSingle(rep, orig) ==
    IF JsonParses(rep) /\ IsJsonNumber(rep.s1)
    THEN LET base == Max(orig, LiteralValue(rep.s1))
             clamped == ClampAppeal(orig, base)
         IN  Response(200, clamped, 0, JsonText(rep.r1), <<>>,
                      clamped > orig \/ rep.acc = "true", NoFavorite)
    ELSE LET numeric == IF RegexMatches(rep.s1) THEN FirstDigit(rep.s1) ELSE orig
             clamped == ClampAppeal(orig, numeric)
             reasoning == IF AnchoredTextMatches(rep, rep.r1) THEN rep.r1.text
                          ELSE RawText(rep)
         IN  Response(200, clamped, 0, reasoning, <<>>, clamped > orig, NoFavorite)

\* parseAppealResponse(raw, originalScore1, originalScore2) of the dual route
ParseAppealDual(rep, orig1, orig2) ==
    IF JsonParses(rep) /\ IsJsonNumber(rep.s1) /\ IsJsonNumber(rep.s2)
    THEN LET base1 == Max(orig1, LiteralValue(rep.s1))
             base2 == Max(orig2, LiteralValue(rep.s2))
             clamped1 == ClampAppeal(orig1, base1)
             clamped2 == ClampAppeal(orig2, base2)
         IN  Response(200, clamped1, clamped2, JsonText(rep.r1), JsonText(rep.r2),
                      clamped1 > orig1 \/ clamped2 > orig2 \/ rep.acc = "true",
                      NoFavorite)
    ELSE LET numeric1 == IF RegexMatches(rep.s1) THEN FirstDigit(rep.s1) ELSE orig1
             numeric2 == IF RegexMatches(rep.s2) THEN FirstDigit(rep.s2) ELSE orig2
             clamped1 == ClampAppeal(orig1, numeric1)
             clamped2 == ClampAppeal(orig2, numeric2)
             reasoning1 == IF TextMatches(rep.r1) THEN rep.r1.text ELSE <<>>
             reasoning2 == IF TextMatches(rep.r2) THEN rep.r2.text ELSE <<>>
         IN  Response(200, clamped1, clamped2, reasoning1, reasoning2,
                      clamped1 > orig1 \/ clamped2 > orig2, NoFavorite)

\* POST /api/appeal, single adjective: 400 on a missing (falsy) field, 500 when
\* the backend call throws, else the parsed reply
AppealSinglePOST(fields, orig, rep) ==
    IF ~fields \/ orig = 0 THEN ErrorResponse(400)
    ELSE IF rep.form = "throw" THEN ErrorResponse(500)
    ELSE ParseAppealSingle(rep, orig)

\* POST /api/appeal, two adjectives: the original scores only have to be numbers
AppealDualPOST(fields, orig1, orig2, rep) ==
    IF ~fields THEN ErrorResponse(400)
    ELSE IF rep.form = "throw" THEN ErrorResponse(500)
    ELSE ParseAppealDual(rep, orig1, orig2)

\* ---------------------------------------------------------------------
\* Scoring gateway: parseScoringResponse, single and dual
\* ---------------------------------------------------------------------

\* Math.min(10, Math.max(1, Math.round(x)))
ClampScore(x) == Min(100, Max(10, MathRound(x)))

\* The fallback clamp without its cap at 10: Math.max(1, Math.round(x)) || 5
ClampScoreOr5NoCap(x) == LET m == Max(10, MathRound(x)) IN IF m = 0 THEN 50 ELSE m

\* Math.min(10, Math.max(1, Math.round(x)) || 5)
ClampScoreOr5(x) == LET m == Max(10, MathRound(x)) IN Min(100, IF m = 0 THEN 50 ELSE m)

\* (parsed.reasoning ?? "").toString()
JsonTextOrEmpty(f) == IF f.kind = "str" THEN f.text ELSE <<>>

\* Math.max(0, Math.min(2, Math.floor(parsed.favoriteIndex))), or null
FavoriteIndex(f) ==
    IF IsJsonNumber(f) THEN {Max(0, Min(20, MathFloor(LiteralValue(f))))} ELSE NoFavorite

\* parseScoringResponse(raw) of the dual route
ParseScoringDual(rep) ==
    IF JsonParses(rep) /\ IsJsonNumber(rep.s1) /\ IsJsonNumber(rep.s2)
    THEN Response(200, ClampScore(LiteralValue(rep.s1)), ClampScore(LiteralValue(rep.s2)),
                  JsonTextOrEmpty(rep.r1), JsonTextOrEmpty(rep.r2), FALSE, NoFavorite)
    ELSE LET score1Num == IF RegexMatches(rep.s1) THEN DigitRun(rep.s1) ELSE 50
             score2Num == IF RegexMatches(rep.s2) THEN DigitRun(rep.s2) ELSE 50
             reasoning1 == IF TextMatches(rep.r1) THEN rep.r1.text ELSE <<>>
             reasoning2 == IF TextMatches(rep.r2) THEN rep.r2.text ELSE <<>>
         IN  Response(200, ClampScoreOr5(score1Num), ClampScoreOr5(score2Num),
                      reasoning1, reasoning2, FALSE, NoFavorite)

\* parseScoringResponse(raw) of the single route
ParseScoringSingle(rep) ==
    IF JsonParses(rep) /\ IsJsonNumber(rep.s1)
    THEN Response(200, ClampScore(LiteralValue(rep.s1)), 0, JsonTextOrEmpty(rep.r1), <<>>,
                  FALSE, FavoriteIndex(rep.fav))
    ELSE LET scoreNum == IF RegexMatches(rep.s1) THEN DigitRun(rep.s1) ELSE 50
             extractedReasoning == IF AnchoredTextMatches(rep, rep.r1) THEN rep.r1.text
                                   ELSE RawText(rep)
         IN  Response(200, ClampScoreOr5(scoreNum), 0, extractedReasoning, <<>>,
                      FALSE, NoFavorite)

\* POST /api/score, two adjectives
ScoreDualPOST(fields, rep) ==
    IF ~fields THEN ErrorResponse(400)
    ELSE IF rep.form = "throw" THEN ErrorResponse(500)
    ELSE ParseScoringDual(rep)

\* POST /api/score, single adjective
ScoreSinglePOST(fields, rep) ==
    IF ~fields THEN ErrorResponse(400)
    ELSE IF rep.form = "throw" THEN ErrorResponse(500)
    ELSE ParseScoringSingle(rep)

\* ---------------------------------------------------------------------
\* The gateways as processes: one request, one reply, one response
\* ---------------------------------------------------------------------

Accs == {"absent", "true", "false"}

NoReply == [form |-> "empty", s1 |-> AbsentField, s2 |-> AbsentField, fav |-> AbsentField,
            acc |-> "absent", r1 |-> AbsentText, r2 |-> AbsentText]

ThrowReply == [NoReply EXCEPT !.form = "throw"]

FitsText == [kind |-> "str", text |-> <<"fits">>]

\* Replies to a single-adjective prompt
SingleReplies ==
    {NoReply, ThrowReply} \cup
    [form : {"json", "leading", "trailing"}, s1 : ScoreFields, s2 : {AbsentField},
     fav : {AbsentField}, acc : Accs, r1 : TextFields, r2 : {AbsentText}]

\* ... with a favoriteIndex, which only the single scoring prompt asks for
FavoriteReplies ==
    [form : {"json", "leading"}, s1 : SmallFields \cup {OtherField}, s2 : {AbsentField},
     fav : SmallFields \cup {OtherField, [kind |-> "num", neg |-> TRUE, digits |-> <<1>>, half |-> TRUE],
                              [kind |-> "num", neg |-> FALSE, digits |-> <<1>>, half |-> TRUE]},
     acc : {"absent"}, r1 : {FitsText}, r2 : {AbsentText}]

\* Replies to a two-adjective prompt: one score field ranges over every
\* literal while the other is short, and the reasonings vary with short scores
DualReplies(accs) ==
    {NoReply, ThrowReply} \cup
    [form : {"json", "leading", "trailing"}, s1 : ScoreFields, s2 : SmallFields \cup {OtherField},
     fav : {AbsentField}, acc : accs, r1 : {FitsText}, r2 : {FitsText}] \cup
    [form : {"json", "leading", "trailing"}, s1 : SmallFields \cup {OtherField}, s2 : ScoreFields,
     fav : {AbsentField}, acc : accs, r1 : {FitsText}, r2 : {FitsText}] \cup
    [form : {"json", "leading", "trailing"}, s1 : SmallFields \cup {OtherField},
     s2 : SmallFields \cup {OtherField},
     fav : {AbsentField}, acc : accs, r1 : TextFields, r2 : TextFields]

\* Original scores a request can carry, in tenths: any JSON number
OrigScores == {0, 40, 60, 65, 100, MaxOrig * 10}

OrigPairs == (OrigScores \X {40}) \cup ({60} \X OrigScores) \cup {<<MaxOrig * 10, MaxOrig * 10>>}

Endpoints == {"appeal", "appeal2", "score", "score2"}

NoResponse == ErrorResponse(0)

GatewayIdle ==
    /\ gwPc = "off" /\ gwEndpoint = "none" /\ gwFields = FALSE
    /\ gwOrig = <<0, 0>> /\ gwReply = NoReply /\ gwOut = NoResponse

\* A request is complete (fields = TRUE) with any reply, or lacks a field
GatewayRequest(endpoints) ==
    /\ gwPc = "call"
    /\ gwEndpoint \in endpoints
    /\ gwOut = NoResponse
    /\ \/ /\ gwFields = TRUE
          /\ \/ gwEndpoint = "appeal" /\ gwOrig \in OrigScores \X {0} /\ gwReply \in SingleReplies
             \/ gwEndpoint = "appeal2" /\ gwOrig \in OrigPairs /\ gwReply \in DualReplies(Accs)
             \/ gwEndpoint = "score" /\ gwOrig = <<0, 0>>
                  /\ gwReply \in SingleReplies \cup FavoriteReplies /\ gwReply.acc = "absent"
             \/ gwEndpoint = "score2" /\ gwOrig = <<0, 0>> /\ gwReply \in DualReplies({"absent"})
       \/ /\ gwFields = FALSE
          /\ gwOrig = <<60, 40>>
          /\ gwReply = NoReply

AppealSingle ==
    /\ gwPc = "call" /\ gwEndpoint = "appeal"
    /\ gwOut' = AppealSinglePOST(gwFields, gwOrig[1], gwReply)
    /\ gwPc' = "done"
    /\ UNCHANGED <<gwEndpoint, gwFields, gwOrig, gwReply>>

AppealDual ==
    /\ gwPc = "call" /\ gwEndpoint = "appeal2"
    /\ gwOut' = AppealDualPOST(gwFields, gwOrig[1], gwOrig[2], gwReply)
    /\ gwPc' = "done"
    /\ UNCHANGED <<gwEndpoint, gwFields, gwOrig, gwReply>>

ScoreSingle ==
    /\ gwPc = "call" /\ gwEndpoint = "score"
    /\ gwOut' = ScoreSinglePOST(gwFields, gwReply)
    /\ gwPc' = "done"
    /\ UNCHANGED <<gwEndpoint, gwFields, gwOrig, gwReply>>

ScoreDual ==
    /\ gwPc = "call" /\ gwEndpoint = "score2"
    /\ gwOut' = ScoreDualPOST(gwFields, gwReply)
    /\ gwPc' = "done"
    /\ UNCHANGED <<gwEndpoint, gwFields, gwOrig, gwReply>>

\* ---------------------------------------------------------------------
\* Deterministic selector: pickDailyAdjectives / pickRandomAdjectives
\* ---------------------------------------------------------------------

\* Bounds of the model
MaxDayOffset == 14   \* last day after the preset epoch that a key names
MaxCount == 3        \* largest count asked for
MaxPool == 4         \* longest pool

PRESET_PAIRS ==
    << <<"sticky", "nostalgic">>, <<"gigantic", "hopeful">>, <<"slippery", "clever">>,
       <<"frozen", "dramatic">>, <<"aromatic", "mysterious">>, <<"jagged", "cheerful">>,
       <<"weightless", "heroic">>, <<"rusty", "nostalgic">>, <<"brittle", "hopeful">>,
       <<"spacious", "lonely">>, <<"smooth", "guilty">>, <<"sharp", "peaceful">>,
       <<"fluffy", "rebellious">>, <<"transparent", "dramatic">> >>

\* "2025-12-10" as <<year, month, day>>
PRESET_START_DATE == <<2025, 12, 10>>

\* Strings whose characters matter are sequences of UTF-16 code units
Code0 == 48
CodeDash == 45

IsDigitCode(c) == c >= Code0 /\ c <= Code0 + 9

TwoDigits(n) == <<Code0 + (n \div 10), Code0 + (n % 10)>>

\* Date.prototype.toISOString().slice(0, 10)
IsoDate(d) ==
    <<Code0 + (d[1] \div 1000), Code0 + ((d[1] \div 100) % 10), Code0 + ((d[1] \div 10) % 10),
      Code0 + (d[1] % 10), CodeDash>> \o TwoDigits(d[2]) \o <<CodeDash>> \o TwoDigits(d[3])

\* dateKey.match(/^(\d{4}-\d{2}-\d{2})/)
DateMatch(key) ==
    /\ Len(key) >= 10
    /\ \A i \in {1, 2, 3, 4, 6, 7, 9, 10} : IsDigitCode(key[i])
    /\ key[5] = CodeDash /\ key[8] = CodeDash

\* The <<year, month, day>> the matched text names
DateFields(key) ==
    << (key[1] - Code0) * 1000 + (key[2] - Code0) * 100 + (key[3] - Code0) * 10 + (key[4] - Code0),
       (key[6] - Code0) * 10 + (key[7] - Code0),
       (key[9] - Code0) * 10 + (key[10] - Code0) >>

IsLeap(y) == (y % 4 = 0 /\ y % 100 # 0) \/ y % 400 = 0

DaysInMonth(y, m) ==
    IF m = 2 THEN (IF IsLeap(y) THEN 29 ELSE 28)
    ELSE IF m \in {4, 6, 9, 11} THEN 30 ELSE 31

\* new Date("YYYY-MM-DD") is a valid date (else getTime() is NaN).  A day that
\* exists in no month, or a month outside 1..12, is invalid in every engine.
DateValid(d) == d[2] \in 1..12 /\ d[3] >= 1 /\ d[3] <= DaysInMonth(d[1], d[2])

RECURSIVE DaysBeforeMonth(_, _)
DaysBeforeMonth(y, m) == IF m = 1 THEN 0 ELSE DaysBeforeMonth(y, m - 1) + DaysInMonth(y, m - 1)

\* Leap days of the years before y
LeapsBefore(y) == ((y - 1) \div 4) - ((y - 1) \div 100) + ((y - 1) \div 400)

\* new Date(s).getTime() / (1000 * 60 * 60 * 24) for a date-only ISO string,
\* which is UTC midnight: a whole number of days (counted from 0001-01-01)
DayNumber(d) == (d[1] - 1) * 365 + LeapsBefore(d[1]) + DaysBeforeMonth(d[1], d[2]) + (d[3] - 1)

\* An unsigned 32-bit value is kept as <<high 16 bits, low 16 bits>>, and the
\* whole number a double holds (below 2^64) as its four base-2^16 digits,
\* lowest first, so that no product of the model passes 2^31
Half == 65536

\* Column sums to digits
Carry(c) ==
    LET k1 == c[2] + (c[1] \div Half)
        k2 == c[3] + (k1 \div Half)
    IN  <<c[1] % Half, k1 % Half, k2 % Half, c[4] + (k2 \div Half)>>

\* The exact product of a 32-bit value and a 32-bit constant whose halves
\* are below 2^15
Times(h, a) ==
    LET p00 == h[2] * a[2]
        p10 == h[1] * a[2]
        p01 == h[2] * a[1]
        p11 == h[1] * a[1]
    IN  Carry(<<p00 % Half,
                (p00 \div Half) + (p10 % Half) + (p01 % Half),
                (p10 \div Half) + (p01 \div Half) + (p11 % Half),
                p11 \div Half>>)

\* The exact sum of a whole number and a 32-bit constant
Plus(l, c) == Carry(<<l[1] + c[2], l[2] + c[1], l[3], l[4]>>)

RECURSIVE BitLength(_)
BitLength(n) == IF n = 0 THEN 0 ELSE 1 + BitLength(n \div 2)

RECURSIVE Pow2(_)
Pow2(k) == IF k = 0 THEN 1 ELSE 2 * Pow2(k - 1)

\* The double nearest to a whole number: 53 significant bits, ties to even.
\* `*` and `+` on JavaScript numbers give the exact result rounded this way.
RoundDouble(l) ==
    IF l[4] < 32 THEN l
    ELSE LET unit == Pow2(BitLength(l[4]) - 5)
             q == l[1] \div unit
             r == l[1] % unit
             up == IF 2 * r > unit \/ (2 * r = unit /\ q % 2 = 1) THEN 1 ELSE 0
         IN  Carry(<<(q + up) * unit, l[2], l[3], l[4]>>)

\* x >>> 0 for a whole number x >= 0
ToUint32(l) == <<l[2], l[1]>>

\* (hash * k + c) >>> 0 in the arithmetic of JavaScript numbers
MulAdd(h, k, c) ==
    LET product == RoundDouble(Times(h, k))
        sum == RoundDouble(Plus(product, c))
    IN  ToUint32(sum)

\* (hash * 31 + code) >>> 0
HashStep(h, code) == MulAdd(h, <<0, 31>>, <<0, code>>)

RECURSIVE HashFrom(_, _)
HashFrom(h, str) ==
    IF str = <<>> THEN h
    ELSE CHOOSE r \in {HashFrom(n, Tail(str)) : n \in {HashStep(h, Head(str))}} : TRUE

\* the for loop over seed.charCodeAt(i), from hash = 0
HashString(str) == HashFrom(<<0, 0>>, str)

\* The step with the constants of the ANSI C generator, 1103515245 and 12345
LcgStepAnsiC(h) == MulAdd(h, <<16838, 20077>>, <<0, 12345>>)

\* (hash * 1664525 + 1013904223) >>> 0, with 1664525 = 25 * 2^16 + 26125 and
\* 1013904223 = 15470 * 2^16 + 62303
LcgStep(h) == MulAdd(h, <<25, 26125>>, <<15470, 62303>>)

\* hash % n
HashMod(h, n) == ((h[1] % n) * (Half % n) + h[2]) % n

\* A draw that leaves the drawn element in the array
SpliceNothing(seq, idx) == seq

\* adjectives.splice(idx, 1), idx counted from 0
Splice(seq, idx) == SubSeq(seq, 1, idx) \o SubSeq(seq, idx + 2, Len(seq))

\* the drawing loop of pickRandomAdjectives: i = count - left
RECURSIVE DrawLoop(_, _, _, _)
DrawLoop(left, hash, adjectives, result) ==
    IF left <= 0 THEN result
    ELSE LET h == LcgStep(hash)
             idx == HashMod(h, Len(adjectives))
         IN  DrawLoop(left - 1, h, Splice(adjectives, idx), Append(result, adjectives[idx + 1]))

\* What the drawing loop leaves of the array it splices
RECURSIVE DrawRest(_, _, _)
DrawRest(left, hash, adjectives) ==
    IF left <= 0 THEN adjectives
    ELSE LET h == LcgStep(hash)
         IN  DrawRest(left - 1, h, Splice(adjectives, HashMod(h, Len(adjectives))))

\* pickRandomAdjectives drawing from the caller's array instead of a copy
\* (adjectives = pool for adjectives = [...pool])
PickRandomInPlace(count, pool, seed) ==
    [result |-> IF Len(pool) <= count THEN pool
                ELSE DrawLoop(count, HashString(seed), pool, <<>>),
     pool |-> IF Len(pool) <= count THEN pool ELSE DrawRest(count, HashString(seed), pool)]

\* pickRandomAdjectives returning early only for a pool shorter than count
\* (adjectives.length < count for adjectives.length <= count)
PickRandomShortOnly(count, pool, seed) ==
    [result |-> IF Len(pool) < count THEN pool
                ELSE DrawLoop(count, HashString(seed), pool, <<>>),
     pool |-> pool]

\* pickRandomAdjectives(count, pool, dateKey): seed is dateKey || Date.now().toString().
\* Returns the result and the pool array as the call leaves it.
PickRandomAdjectives(count, pool, seed) ==
    LET adjectives == pool
    IN  [result |-> IF Len(adjectives) <= count THEN adjectives
                    ELSE DrawLoop(count, HashString(seed), adjectives, <<>>),
         pool |-> pool]

\* pickDailyAdjectives with the preset window opening a day late
\* (daysDiff > 0 for daysDiff >= 0)
PickDailyLateStart(dateKey, count, pool, now) ==
    IF ~DateMatch(dateKey) THEN PickRandomAdjectives(count, pool, now)
    ELSE LET d == DateFields(dateKey)
             daysDiff == DayNumber(d) - DayNumber(PRESET_START_DATE)
         IN  IF DateValid(d) /\ daysDiff > 0 /\ daysDiff < Len(PRESET_PAIRS)
                /\ Len(PRESET_PAIRS[daysDiff + 1]) = count
             THEN [result |-> PRESET_PAIRS[daysDiff + 1], pool |-> pool]
             ELSE PickRandomAdjectives(count, pool, dateKey)

\* pickDailyAdjectives(dateKey, count, pool); now is Date.now().toString()
PickDailyAdjectives(dateKey, count, pool, now) ==
    IF ~DateMatch(dateKey) THEN PickRandomAdjectives(count, pool, now)
    ELSE LET d == DateFields(dateKey)
             daysDiff == DayNumber(d) - DayNumber(PRESET_START_DATE)
         IN  IF DateValid(d) /\ daysDiff >= 0 /\ daysDiff < Len(PRESET_PAIRS)
                /\ Len(PRESET_PAIRS[daysDiff + 1]) = count
             THEN [result |-> PRESET_PAIRS[daysDiff + 1], pool |-> pool]
             ELSE PickRandomAdjectives(count, pool, dateKey)

\* ---------------------------------------------------------------------
\* The selector as a process: the same call made twice
\* ---------------------------------------------------------------------

Words == {"sticky", "zany", "odd"}

Pools == UNION {[1..n -> Words] : n \in 0..MaxPool}

\* Days around the preset window, as the date and its distance from the epoch
WindowDates == {[date |-> <<2025, 12, 10 + d>>, real |-> TRUE, off |-> d] : d \in (0 - 1)..MaxDayOffset}

FarDates ==
    {[date |-> <<2025, 11, 30>>, real |-> TRUE, off |-> 0 - 10],
     [date |-> <<2024, 12, 10>>, real |-> TRUE, off |-> 0 - 365],
     [date |-> <<2026, 1, 1>>, real |-> TRUE, off |-> 22],
     [date |-> <<2026, 12, 10>>, real |-> TRUE, off |-> 365]}

\* Date-formatted text naming no day
UnrealDates ==
    {[date |-> <<2025, 13, 1>>, real |-> FALSE, off |-> 0],
     [date |-> <<2025, 12, 0>>, real |-> FALSE, off |-> 0]}

\* "" and "-v4" (todayKey appends `-v${DAILY_SEED_VERSION}`)
Suffixes == {<<>>, <<CodeDash, 118, 52>>}

\* Keys that do not start with a date: "", "v4", "12-10-2025"
PlainKeys == {<<>>, <<118, 52>>, <<49, 50, 45, 49, 48, 45, 50, 48, 50, 53>>}

\* Date.now().toString() at two moments
Clocks == {<<49, 55>>, <<49, 56>>}

\* The arguments of a call, with the pool as handed in kept beside them
SelectorCall(key, dated, real, off, count, pool) ==
    [key |-> key, dated |-> dated, real |-> real, off |-> off,
     count |-> count, pool |-> pool, pool0 |-> pool]

SelectorIdle ==
    /\ pkPc = "off" /\ pkOut = <<>> /\ pkPrev = <<>>
    /\ pkArgs = [key |-> <<>>, dated |-> FALSE, real |-> FALSE, off |-> 0, count |-> 0,
                 pool |-> <<>>, pool0 |-> <<>>]

SelectorInit ==
    /\ pkPc = "call" /\ pkOut = <<>> /\ pkPrev = <<>>
    /\ \E c \in 0..MaxCount, p \in Pools :
         \/ \E kd \in WindowDates \cup FarDates \cup UnrealDates, sfx \in Suffixes :
              pkArgs = SelectorCall(IsoDate(kd.date) \o sfx, TRUE, kd.real, kd.off, c, p)
         \/ \E k \in PlainKeys :
              pkArgs = SelectorCall(k, FALSE, FALSE, 0, c, p)

\* the first call
PickDaily ==
    /\ pkPc = "call"
    /\ \E now \in Clocks :
         LET r == PickDailyAdjectives(pkArgs.key, pkArgs.count, pkArgs.pool, now)
         IN  /\ pkOut' = r.result
             /\ pkArgs' = [pkArgs EXCEPT !.pool = r.pool]
    /\ pkPc' = "done"
    /\ UNCHANGED pkPrev

\* the same call again, later
PickDailyAgain ==
    /\ pkPc = "done"
    /\ \E now \in Clocks :
         LET r == PickDailyAdjectives(pkArgs.key, pkArgs.count, pkArgs.pool, now)
         IN  /\ pkOut' = r.result
             /\ pkArgs' = [pkArgs EXCEPT !.pool = r.pool]
    /\ pkPrev' = pkOut
    /\ pkPc' = "again"

\* ---------------------------------------------------------------------
\* Game state machine, two-adjective 5-guess variant (useDailyGameState)
\* ---------------------------------------------------------------------

\* Bound of the model
MaxTimers == 1       \* pending setTimeout(advanceTurn, 500) callbacks kept at once
MaxResets == 1       \* presses of the debug buttons (Reset daily, Random game) in a run

maxTurns == 5

Slots == 0..(maxTurns - 1)

\* One of the day's two adjectives, typed as an answer
Adjective1 == "sticky"

\* The answer a player has in mind for each slot
Nouns == <<"ant", "bee", "cat", "dog", "eel">>

\* Scores the scoring endpoint returns for a guess (whole numbers in 1..10)
ScorePairs == {<<7, 7>>, <<10, 7>>, <<10, 10>>}

NoScores == <<>>

\* { noun: "" }
EmptyGuess == [noun |-> "", scores |-> NoScores, appealed |-> FALSE, isPass |-> FALSE]

\* emptyGuesses(); slot i of the code is guesses[i] here, a function on 0..4
emptyGuesses == [i \in Slots |-> EmptyGuess]

\* createNewDailyState() / the state forceRandomDebugGame sets
createNewDailyState(mode) ==
    [mode |-> mode, guesses |-> emptyGuesses, currentTurnIndex |-> 0, appealsRemaining |-> 1]

\* currentTurn.roundIndex: Math.min(Math.max(state.currentTurnIndex, 0), 4)
roundIndexOf(st) == Min(Max(st.currentTurnIndex, 0), maxTurns - 1)

isCompleteOf(st) == st.currentTurnIndex >= maxTurns

\* submitGuessLocally(roundIndex, noun)
submitGuessLocally(st, roundIndex, noun) ==
    [st EXCEPT !.guesses = [ri \in Slots |->
        IF ri = roundIndex THEN [st.guesses[ri] EXCEPT !.noun = noun, !.isPass = FALSE]
        ELSE st.guesses[ri]]]

\* submitPassLocally(roundIndex)
submitPassLocally(st, roundIndex) ==
    [st EXCEPT !.guesses = [ri \in Slots |->
        LET g == st.guesses[ri]
        IN  IF ri = roundIndex
            THEN [g EXCEPT !.noun = IF g.noun # "" THEN g.noun ELSE "PASS",
                           !.scores = <<0, 0>>, !.isPass = TRUE]
            ELSE IF ri > roundIndex /\ g.noun = "" /\ ~g.isPass
            THEN [g EXCEPT !.noun = "PASS", !.scores = <<0, 0>>, !.isPass = TRUE]
            ELSE g]]

\* the while loop of advanceTurn: skip passes
RECURSIVE SkipPasses(_, _)
SkipPasses(st, nextTurnIndex) ==
    IF nextTurnIndex < maxTurns /\ nextTurnIndex >= 0 /\ st.guesses[nextTurnIndex].isPass
    THEN SkipPasses(st, nextTurnIndex + 1)
    ELSE nextTurnIndex

\* advanceTurn() without its last line, nextTurnIndex = Math.min(nextTurnIndex, maxTurns)
advanceTurnNoCap(st) ==
    [st EXCEPT !.currentTurnIndex = SkipPasses(st, st.currentTurnIndex + 1)]

\* advanceTurn()
advanceTurn(st) ==
    [st EXCEPT !.currentTurnIndex = Min(SkipPasses(st, st.currentTurnIndex + 1), maxTurns)]

\* applyScore(roundIndex, scores, reasonings)
applyScore(st, roundIndex, scores) ==
    [st EXCEPT !.guesses = [ri \in Slots |->
        LET g == st.guesses[ri]
        IN  IF ri = roundIndex THEN [g EXCEPT !.scores = scores]
            ELSE IF scores[1] = 10 /\ scores[2] = 10 /\ ri > roundIndex
                    /\ g.noun = "" /\ ~g.isPass
            THEN [g EXCEPT !.noun = "Perfect Score Achieved", !.scores = <<10, 10>>,
                           !.isPass = TRUE]
            ELSE g]]

\* applyAppealResult handing a token out instead of taking it
applyAppealResultGrant(st, roundIndex, newScores) ==
    [st EXCEPT !.guesses = [ri \in Slots |->
                   IF ri = roundIndex
                   THEN [st.guesses[ri] EXCEPT !.scores = newScores, !.appealed = TRUE]
                   ELSE st.guesses[ri]],
               !.appealsRemaining = Max(0, st.appealsRemaining + 1)]

\* applyAppealResult keeping the token when the scores did not move
applyAppealResultKeepToken(st, roundIndex, newScores) ==
    [st EXCEPT !.guesses = [ri \in Slots |->
                   IF ri = roundIndex
                   THEN [st.guesses[ri] EXCEPT !.scores = newScores, !.appealed = TRUE]
                   ELSE st.guesses[ri]],
               !.appealsRemaining = IF newScores = st.guesses[roundIndex].scores
                                    THEN st.appealsRemaining
                                    ELSE Max(0, st.appealsRemaining - 1)]

\* applyAppealResult(roundIndex, newScores, newReasonings, appealTokenConsumed)
applyAppealResult(st, roundIndex, newScores) ==
    [st EXCEPT !.guesses = [ri \in Slots |->
                   IF ri = roundIndex
                   THEN [st.guesses[ri] EXCEPT !.scores = newScores, !.appealed = TRUE]
                   ELSE st.guesses[ri]],
               !.appealsRemaining = Max(0, st.appealsRemaining - 1)]

\* g.scores[0] + g.scores[1], 0 for a guess without scores
Combined(g) == IF g.scores = NoScores THEN 0 ELSE g.scores[1] + g.scores[2]

\* The largest member of a non-empty set of numbers
MaxOf(set) == CHOOSE m \in set : \A n \in set : n <= m

\* The smallest member of a non-empty set of numbers
MinOf(set) == CHOOSE m \in set : \A n \in set : m <= n

\* totalScore of the hook: the reduce over all guesses, from 0
totalScore(st) == MaxOf({0} \cup {Combined(st.guesses[i]) : i \in Slots})

\* getBestIndex(guesses), -1 when no guess is best
getBestIndex(guesses) ==
    LET bestScore == MaxOf({0} \cup {Combined(guesses[i]) : i \in Slots})
        candidateIndices == {i \in Slots : Combined(guesses[i]) = bestScore
                                            /\ ~guesses[i].isPass}
    IN  IF bestScore <= 0 THEN -1
        ELSE IF candidateIndices = {} THEN -1
        ELSE MinOf(candidateIndices)

\* ---------------------------------------------------------------------
\* Load and persist (the mount effect, reviveState)
\* ---------------------------------------------------------------------

DAILY_SEED_VERSION == 4

\* Bound of the model: days of the clock are 1..MaxDay
MaxDay == 2

\* todayKey(): the date and the seed version, `${base}-v${DAILY_SEED_VERSION}`
todayKey(today) == [date |-> today, version |-> DAILY_SEED_VERSION]

\* A field of the stored object that holds no string / no number
NoString == [isString |-> FALSE, date |-> 0, version |-> 0]
NoNumber == [isNumber |-> FALSE, val |-> 0]

StringKey(key) == [isString |-> TRUE, date |-> key.date, version |-> key.version]
Number(n) == [isNumber |-> TRUE, val |-> n]

\* What getItem returns, by what JSON.parse makes of it: form "none" (null or
\* the empty string), "garbage" (JSON.parse throws), "scalar" (null, a number,
\* a string) or "object"; of an object: the length of its adjectives array
\* (-1 when it is no array), whether guesses is an array and its elements,
\* mode ("" when absent), dateKey, currentTurnIndex and appealsRemaining
StoredObject(adjectives, guessesIsArray, guesses, mode, dateKey, turn, appeals) ==
    [form |-> "object", adjectives |-> adjectives, guessesIsArray |-> guessesIsArray,
     guesses |-> guesses, mode |-> mode, dateKey |-> dateKey,
     currentTurnIndex |-> turn, appealsRemaining |-> appeals]

StoredOther(form) ==
    [StoredObject(-1, FALSE, emptyGuesses, "", NoString, NoNumber, NoNumber)
        EXCEPT !.form = form]

\* JSON.stringify(state) as the persist effect writes it
Persisted(st, key) ==
    StoredObject(2, TRUE, st.guesses, st.mode, StringKey(key),
                 Number(st.currentTurnIndex), Number(st.appealsRemaining))

\* reviveState(raw) returned null
Null == [isNull |-> TRUE, dateKey |-> todayKey(0), game |-> createNewDailyState("off")]

\* reviveState(JSON.parse(stored))
reviveState(raw, today) ==
    IF raw.form # "object" THEN Null
    ELSE IF raw.adjectives < 0 THEN Null
    ELSE IF raw.adjectives = 2
    THEN IF ~raw.guessesIsArray THEN Null
         ELSE [isNull |-> FALSE,
               dateKey |-> IF raw.dateKey.isString
                           THEN [date |-> raw.dateKey.date, version |-> raw.dateKey.version]
                           ELSE todayKey(today),
               game |-> [mode |-> IF raw.mode # "" THEN raw.mode ELSE "daily",
                         guesses |-> raw.guesses,
                         currentTurnIndex |-> IF raw.currentTurnIndex.isNumber
                                              THEN raw.currentTurnIndex.val ELSE 0,
                         appealsRemaining |-> IF raw.appealsRemaining.isNumber
                                              THEN raw.appealsRemaining.val ELSE 1]]
    ELSE Null

\* The mount effect: the state it sets and that state's dateKey
loadState(stored, today) ==
    LET fresh == [dateKey |-> todayKey(today), game |-> createNewDailyState("daily")]
    IN  IF stored.form \in {"none", "garbage"} THEN fresh
        ELSE LET parsed == reviveState(stored, today)
             IN  IF ~parsed.isNull /\ parsed.game.mode = "daily"
                    /\ parsed.dateKey = todayKey(today)
                 THEN [dateKey |-> parsed.dateKey, game |-> parsed.game]
                 ELSE fresh

\* A board with one scored guess on it
PlayedGuesses ==
    [emptyGuesses EXCEPT ![0] = [noun |-> "ant", scores |-> <<7, 7>>,
                                 appealed |-> FALSE, isPass |-> FALSE]]

NoState == [dateKey |-> todayKey(0), game |-> createNewDailyState("off")]

LoadIdle == ldPc = "idle" /\ ldStored = StoredOther("none") /\ ldToday = 0 /\ ldOut = NoState

\* A page load on any day with anything in the storage: nothing, text that is
\* no JSON, a scalar, or an object in the shape of this or another build
LoadInit ==
    /\ ldPc = "call"
    /\ ldToday \in 1..MaxDay
    /\ \/ \E form \in {"none", "garbage", "scalar"} : ldStored = StoredOther(form)
       \/ \E adjectives \in {-1, 2, 3}, guessesIsArray \in BOOLEAN,
             guesses \in {emptyGuesses, PlayedGuesses},
             mode \in {"", "daily", "debug-random"},
             date \in 0..MaxDay, version \in {DAILY_SEED_VERSION - 1, DAILY_SEED_VERSION},
             turn \in {NoNumber, Number(0), Number(1)},
             appeals \in {NoNumber, Number(0), Number(1)} :
            ldStored = StoredObject(adjectives, guessesIsArray, guesses, mode,
                                    IF date = 0 THEN NoString
                                    ELSE StringKey([date |-> date, version |-> version]),
                                    turn, appeals)
    /\ ldOut = NoState

\* the mount effect runs
Load ==
    /\ ldPc = "call"
    /\ ldOut' = loadState(ldStored, ldToday)
    /\ ldPc' = "done"
    /\ UNCHANGED <<ldStored, ldToday>>

\* ---------------------------------------------------------------------
\* advanceTurn of the 5-guess hook on its own
\* ---------------------------------------------------------------------

\* A slot as submitPassLocally leaves it, and a scored answer
PassedGuess == [noun |-> "PASS", scores |-> <<0, 0>>, appealed |-> FALSE, isPass |-> TRUE]
ScoredGuess == [noun |-> "ant", scores |-> <<7, 7>>, appealed |-> FALSE, isPass |-> FALSE]

\* Any board of empty, passed and scored slots with the turn on any slot
Advance5Init ==
    /\ atPc = "call"
    /\ \E guesses \in [Slots -> {EmptyGuess, PassedGuess, ScoredGuess}],
          turn \in 0..maxTurns :
         atPrev = [createNewDailyState("daily") EXCEPT !.guesses = guesses,
                                                      !.currentTurnIndex = turn]
    /\ atNext = 0

\* advanceTurn() runs
AdvanceTurn5 ==
    /\ atPc = "call"
    /\ atNext' = advanceTurn(atPrev).currentTurnIndex
    /\ atPc' = "done"
    /\ UNCHANGED atPrev

Advance5Idle == atPc = "idle" /\ atPrev = createNewDailyState("off") /\ atNext = 0

\* ---------------------------------------------------------------------
\* Game state machine, 3x3 variant (useDailyGameState of the 3x3 hook and
\* the handlers of its Game component)
\* ---------------------------------------------------------------------

maxTurns3 == 9

Categories == 0..2
Rounds == 0..2

\* g.score is undefined
NoScore == -1

\* Scores the single-category endpoint returns (whole numbers in 1..10)
Scores3 == {5, 10}

\* { noun: "" }
EmptyGuess3 == [noun |-> "", score |-> NoScore, isPass |-> FALSE]

\* emptyGuesses(): guesses[categoryIndex][guessIndex]
emptyGuesses3 == [ai \in Categories |-> [ri \in Rounds |-> EmptyGuess3]]

\* createNewDailyState() / the state forceRandomDebugGame sets
createNewDailyState3(mode) ==
    [mode |-> mode, guesses |-> emptyGuesses3, currentTurnIndex |-> 0]

\* currentTurn: idx clamped to 0..8, category-major
currentTurn3(st) ==
    LET idx == Min(Max(st.currentTurnIndex, 0), maxTurns3 - 1)
    IN  [idx |-> idx, adjectiveIndex |-> idx \div 3, roundIndex |-> idx % 3]

isComplete3(st) == st.currentTurnIndex >= maxTurns3

\* submitGuessLocally(adjectiveIndex, roundIndex, noun)
submitGuessLocally3(st, adjectiveIndex, roundIndex, noun) ==
    [st EXCEPT !.guesses = [ai \in Categories |-> [ri \in Rounds |->
        IF ai = adjectiveIndex /\ ri = roundIndex
        THEN [st.guesses[ai][ri] EXCEPT !.noun = noun, !.isPass = FALSE]
        ELSE st.guesses[ai][ri]]]]

\* submitPassLocally(adjectiveIndex, roundIndex)
submitPassLocally3(st, adjectiveIndex, roundIndex) ==
    [st EXCEPT !.guesses = [ai \in Categories |-> [ri \in Rounds |->
        LET g == st.guesses[ai][ri]
        IN  IF ai # adjectiveIndex THEN g
            ELSE IF ri = roundIndex
            THEN [g EXCEPT !.noun = IF g.noun # "" THEN g.noun ELSE "PASS",
                           !.score = 0, !.isPass = TRUE]
            ELSE IF ri > roundIndex /\ g.noun = "" /\ ~g.isPass
            THEN [g EXCEPT !.noun = "PASS", !.score = 0, !.isPass = TRUE]
            ELSE g]]]

\* g.score ?? 0
ScoreOr0(g) == IF g.score = NoScore THEN 0 ELSE g.score

\* prev.guesses[categoryIndex].some((g) => g.isPass || (g.score ?? 0) >= 10)
isLockedCategory(st, categoryIndex) ==
    \E ri \in Rounds : st.guesses[categoryIndex][ri].isPass
                        \/ ScoreOr0(st.guesses[categoryIndex][ri]) >= 10

\* the while loop of the 3x3 advanceTurn: skip the rest of a locked category
RECURSIVE SkipLocked(_, _)
SkipLocked(st, nextTurnIndex) ==
    IF nextTurnIndex < maxTurns3 /\ isLockedCategory(st, nextTurnIndex \div 3)
    THEN SkipLocked(st, nextTurnIndex + (3 - (nextTurnIndex % 3)))
    ELSE nextTurnIndex

\* advanceTurn() of the 3x3 hook
advanceTurn3(st) ==
    [st EXCEPT !.currentTurnIndex = Min(SkipLocked(st, st.currentTurnIndex + 1), maxTurns3)]

\* applyScore(adjectiveIndex, roundIndex, score, reasoning, favoriteIndex), the guesses
applyScore3(st, adjectiveIndex, roundIndex, score) ==
    [st EXCEPT !.guesses = [ai \in Categories |-> [ri \in Rounds |->
        LET g == st.guesses[ai][ri]
        IN  IF ai = adjectiveIndex /\ ri = roundIndex THEN [g EXCEPT !.score = score]
            ELSE IF ai = adjectiveIndex /\ score >= 10 /\ ri > roundIndex
                    /\ g.noun = "" /\ ~g.isPass
            THEN [g EXCEPT !.noun = "Perfect Score Achieved", !.score = 10, !.isPass = TRUE]
            ELSE g]]]

NoRequest3 == [active |-> FALSE, adjectiveIndex |-> 0, roundIndex |-> 0]

\* The input row is rendered: !isComplete and !awaitingNextCategory
InputVisible3 == state3.mode # "off" /\ ~isComplete3(state3) /\ ~awaitingNextCategory3

\* handleSubmitGuess of the 3x3 component, up to the fetch, with an answer typed
HandleSubmitGuess3 ==
    /\ InputVisible3 /\ ~submitting3
    /\ inflight3' = [active |-> TRUE,
                     adjectiveIndex |-> currentTurn3(state3).adjectiveIndex,
                     roundIndex |-> currentTurn3(state3).roundIndex]
    /\ submitting3' = TRUE
    /\ UNCHANGED <<state3, awaitingNextCategory3, resets3>>

\* roundIndex < 2 ? advanceTurn() : setAwaitingNextCategory(true)
AdvanceOrAwait3(st, roundIndex) ==
    /\ state3' = IF roundIndex < 2 THEN advanceTurn3(st) ELSE st
    /\ awaitingNextCategory3' = IF roundIndex < 2 THEN awaitingNextCategory3 ELSE TRUE

\* handleSubmitGuess after the fetch resolved with 200 and a score: a 10 ends
\* the category (Next round / See results), any other score moves on
ScoreArrives3 ==
    /\ inflight3.active
    /\ \E score \in Scores3 :
         LET st == applyScore3(submitGuessLocally3(state3, inflight3.adjectiveIndex,
                                                   inflight3.roundIndex, "word"),
                               inflight3.adjectiveIndex, inflight3.roundIndex, score)
         IN  IF score >= 10
             THEN state3' = st /\ awaitingNextCategory3' = TRUE
             ELSE AdvanceOrAwait3(st, inflight3.roundIndex)
    /\ submitting3' = FALSE
    /\ inflight3' = NoRequest3
    /\ UNCHANGED resets3

\* handleSubmitGuess, catch branch
ScoreFails3 ==
    /\ inflight3.active
    /\ AdvanceOrAwait3(submitGuessLocally3(state3, inflight3.adjectiveIndex,
                                           inflight3.roundIndex, "word"),
                       inflight3.roundIndex)
    /\ submitting3' = FALSE
    /\ inflight3' = NoRequest3
    /\ UNCHANGED resets3

\* previousRoundsForThisAdjective.length > 0
HasPreviousRounds3(st) ==
    \E ri \in Rounds : /\ ri <= currentTurn3(st).roundIndex
                        /\ st.guesses[currentTurn3(st).adjectiveIndex][ri].noun # ""

\* onClick of the Pass button
PassButton3 ==
    /\ InputVisible3 /\ ~submitting3 /\ HasPreviousRounds3(state3)
    /\ state3' = submitPassLocally3(state3, currentTurn3(state3).adjectiveIndex,
                                    currentTurn3(state3).roundIndex)
    /\ awaitingNextCategory3' = TRUE
    /\ UNCHANGED <<submitting3, inflight3, resets3>>

\* onClick of the Next round / See results button
ContinueButton3 ==
    /\ state3.mode # "off" /\ ~isComplete3(state3) /\ awaitingNextCategory3
    /\ awaitingNextCategory3' = FALSE
    /\ state3' = advanceTurn3(state3)
    /\ UNCHANGED <<submitting3, inflight3, resets3>>

\* resetDaily() of the 3x3 hook
ResetDaily3 ==
    /\ state3.mode # "off" /\ resets3 < MaxResets
    /\ state3' = createNewDailyState3("daily")
    /\ resets3' = resets3 + 1
    /\ UNCHANGED <<submitting3, awaitingNextCategory3, inflight3>>

\* forceRandomDebugGame() of the 3x3 hook
ForceRandomDebugGame3 ==
    /\ state3.mode # "off" /\ resets3 < MaxResets
    /\ state3' = createNewDailyState3("debug-random")
    /\ resets3' = resets3 + 1
    /\ UNCHANGED <<submitting3, awaitingNextCategory3, inflight3>>

\* The page is loaded again: the mount effect of the 3x3 hook restores the
\* save of a daily game of the same day, else starts a fresh one
Reload3 ==
    /\ state3.mode # "off"
    /\ \E sameDay \in BOOLEAN :
         state3' = IF state3.mode = "daily" /\ sameDay THEN state3
                   ELSE createNewDailyState3("daily")
    /\ submitting3' = FALSE /\ awaitingNextCategory3' = FALSE
    /\ inflight3' = NoRequest3
    /\ UNCHANGED resets3

Game3Idle ==
    /\ state3 = createNewDailyState3("off")
    /\ submitting3 = FALSE /\ awaitingNextCategory3 = FALSE
    /\ inflight3 = NoRequest3 /\ resets3 = 0

\* After mount with no same-day save: a fresh daily 3x3 game
Game3Init ==
    /\ state3 = createNewDailyState3("daily")
    /\ submitting3 = FALSE /\ awaitingNextCategory3 = FALSE
    /\ inflight3 = NoRequest3 /\ resets3 = 0

AdvanceIdle == Advance5Idle /\ Game3Idle

\* ---------------------------------------------------------------------
\* The Game component: handlers, timers and replies
\* ---------------------------------------------------------------------

NoRequest == [active |-> FALSE, roundIndex |-> 0, noun |-> ""]

\* appealOpenFor === null
NoAppeal == -1

\* No appeal fetch is pending; a pending one is [roundIndex, scores], the slot
\* and the scores submitAppeal read when it ran
NoAppealRequest == {}

\* appealError === null
NoError == ""

NoHistory == [lockedSubmit |-> FALSE, resets |-> 0, appealedSlots |-> {}, reapplied |-> FALSE]

\* The input row is rendered: !isComplete and !awaitingNextCategory
InputVisible == ~isCompleteOf(state) /\ ~awaitingNextCategory

\* The input-sync effect: setCurrentInput(guess?.noun ?? "")
SyncInput(st) == st.guesses[roundIndexOf(st)].noun

\* What a player types: nothing, the category word, the answer in mind for
\* the slot, or an answer already on the board
TypableTexts(st) ==
    {"", Adjective1, Nouns[roundIndexOf(st) + 1]}
    \cup {st.guesses[i].noun : i \in {j \in Slots : ~st.guesses[j].isPass}}

\* isForbiddenCategoryEcho, for the texts of this model
IsForbiddenCategoryEcho(text) == text = Adjective1

\* priorAnswers.includes(trimmed.toLowerCase())
IsDuplicate(st, roundIndex, text) ==
    \E i \in Slots : i < roundIndex /\ ~st.guesses[i].isPass /\ st.guesses[i].noun = text

\* previousGuesses.length > 0
HasPreviousGuesses(st) == \E i \in Slots : i <= roundIndexOf(st) /\ st.guesses[i].noun # ""

\* A slot no further guess should go to: it holds the maximum or a pass marker
IsLocked(g) == g.isPass \/ g.scores = <<10, 10>>

\* handleSubmitGuess without the submitting check of its first line
HandleSubmitGuessWhileSubmitting ==
    /\ InputVisible
    /\ \E text \in TypableTexts(state) \cup {currentInput} :
         /\ text # ""
         /\ ~IsForbiddenCategoryEcho(text)
         /\ ~IsDuplicate(state, roundIndexOf(state), text)
         /\ currentInput' = text
         /\ inflight' = [active |-> TRUE, roundIndex |-> roundIndexOf(state), noun |-> text]
    /\ submitting' = TRUE
    /\ history' = [history EXCEPT !.lockedSubmit =
                       @ \/ IsLocked(state.guesses[roundIndexOf(state)])]
    /\ UNCHANGED <<state, awaitingNextCategory, timers, appealVars>>

\* handleSubmitGuess, up to the fetch (Enter in the input or the submit button),
\* on the text left in the box by the input-sync effect or typed over it
HandleSubmitGuess ==
    /\ InputVisible /\ ~submitting
    /\ \E text \in TypableTexts(state) \cup {currentInput} :
         /\ text # ""
         /\ ~IsForbiddenCategoryEcho(text)
         /\ ~IsDuplicate(state, roundIndexOf(state), text)
         /\ currentInput' = text
         /\ inflight' = [active |-> TRUE, roundIndex |-> roundIndexOf(state), noun |-> text]
    /\ submitting' = TRUE
    /\ history' = [history EXCEPT !.lockedSubmit =
                       @ \/ IsLocked(state.guesses[roundIndexOf(state)])]
    /\ UNCHANGED <<state, awaitingNextCategory, timers, appealVars>>

\* roundIndex < 2 ? advanceTurn() : setTimeout(advanceTurn, 500)
AdvanceOrDelay(st, roundIndex) ==
    /\ roundIndex >= 2 => timers < MaxTimers
    /\ state' = IF roundIndex < 2 THEN advanceTurn(st) ELSE st
    /\ timers' = IF roundIndex < 2 THEN timers ELSE timers + 1

\* handleSubmitGuess after the fetch resolved with 200 and two scores
ScoreArrives ==
    /\ inflight.active
    /\ \E scores \in ScorePairs :
         AdvanceOrDelay(applyScore(submitGuessLocally(state, inflight.roundIndex, inflight.noun),
                                   inflight.roundIndex, scores),
                        inflight.roundIndex)
    /\ submitting' = FALSE
    /\ inflight' = NoRequest
    /\ currentInput' = SyncInput(state')
    /\ UNCHANGED <<awaitingNextCategory, appealVars, history>>

\* handleSubmitGuess, catch branch: the fetch rejected or the status was not 2xx
ScoreFails ==
    /\ inflight.active
    /\ AdvanceOrDelay(submitGuessLocally(state, inflight.roundIndex, inflight.noun),
                      inflight.roundIndex)
    /\ submitting' = FALSE
    /\ inflight' = NoRequest
    /\ currentInput' = SyncInput(state')
    /\ UNCHANGED <<awaitingNextCategory, appealVars, history>>

\* a setTimeout(() => advanceTurn(), 500) callback runs
AdvanceTimer ==
    /\ timers > 0
    /\ timers' = timers - 1
    /\ state' = advanceTurn(state)
    /\ currentInput' = SyncInput(state')
    /\ UNCHANGED <<submitting, awaitingNextCategory, inflight, appealVars, history>>

\* onClick of the Pass button
PassButton ==
    /\ InputVisible /\ ~submitting /\ HasPreviousGuesses(state)
    /\ state' = submitPassLocally(state, roundIndexOf(state))
    /\ awaitingNextCategory' = TRUE
    /\ currentInput' = SyncInput(state')
    /\ UNCHANGED <<submitting, inflight, timers, appealVars, history>>

\* onClick of the Continue button
ContinueButton ==
    /\ ~isCompleteOf(state) /\ awaitingNextCategory /\ roundIndexOf(state) < 2
    /\ awaitingNextCategory' = FALSE
    /\ state' = advanceTurn(state)
    /\ currentInput' = SyncInput(state')
    /\ UNCHANGED <<submitting, inflight, timers, appealVars, history>>

\* resetDaily()
ResetDaily ==
    /\ history.resets < MaxResets
    /\ state' = createNewDailyState("daily")
    /\ currentInput' = SyncInput(state')
    /\ history' = [NoHistory EXCEPT !.resets = history.resets + 1]
    /\ UNCHANGED <<submitting, awaitingNextCategory, inflight, timers, appealVars>>

\* forceRandomDebugGame()
ForceRandomDebugGame ==
    /\ history.resets < MaxResets
    /\ state' = createNewDailyState("debug-random")
    /\ currentInput' = SyncInput(state')
    /\ history' = [NoHistory EXCEPT !.resets = history.resets + 1]
    /\ UNCHANGED <<submitting, awaitingNextCategory, inflight, timers, appealVars>>

\* canAppeal of a row that is given canAppealNow = true during play as well
canAppealDuringPlay(st, r) ==
    /\ ~st.guesses[r].appealed
    /\ st.guesses[r].scores # NoScores
    /\ st.appealsRemaining > 0
    /\ ~st.guesses[r].isPass

\* PreviousGuessRow.canAppeal on the completed board (canAppealNow = isComplete)
canAppeal(st, r) ==
    /\ isCompleteOf(st)
    /\ ~st.guesses[r].appealed
    /\ st.guesses[r].scores # NoScores
    /\ st.appealsRemaining > 0
    /\ ~st.guesses[r].isPass

\* openAppeal(roundIndex): the Appeal button of a row of the completed board
OpenAppeal ==
    /\ \E r \in Slots :
         /\ canAppeal(state, r)
         /\ appealOpenFor' = r
    /\ appealError' = NoError
    /\ UNCHANGED <<state, submitting, awaitingNextCategory, currentInput, inflight,
                   timers, appealSubmitting, appealInflight, history>>

\* cancelAppeal(): the Cancel button of the dialog, enabled during a request too
CancelAppeal ==
    /\ appealOpenFor # NoAppeal
    /\ appealOpenFor' = NoAppeal
    /\ appealError' = NoError
    /\ UNCHANGED <<state, submitting, awaitingNextCategory, currentInput, inflight,
                   timers, appealSubmitting, appealInflight, history>>

\* The new scores the client takes from a 200 reply of /api/appeal: a score
\* of the reply when it is a number above 0, else the original one
AppealScores(scores) == {scores, <<10, scores[2]>>, <<10, 10>>}

\* submitAppeal with no sentence typed, or one longer than 256 characters:
\* the message is set and nothing is sent
SubmitAppealInvalid ==
    /\ appealOpenFor # NoAppeal /\ ~appealSubmitting
    /\ ~state.guesses[appealOpenFor].appealed
    /\ state.guesses[appealOpenFor].scores # NoScores
    /\ appealError' \in {"Add a one-sentence appeal (max 256 characters).",
                         "Appeal must be 256 characters or fewer."}
    /\ UNCHANGED <<state, submitting, awaitingNextCategory, currentInput, inflight,
                   timers, appealOpenFor, appealSubmitting, appealInflight, history>>

\* submitAppeal reachable while a request is pending (the button not disabled)
SubmitAppealWhilePending ==
    /\ appealOpenFor # NoAppeal
    /\ ~state.guesses[appealOpenFor].appealed
    /\ state.guesses[appealOpenFor].scores # NoScores
    /\ appealSubmitting' = TRUE
    /\ appealError' = NoError
    /\ appealInflight' = appealInflight \cup
                           {[roundIndex |-> appealOpenFor,
                             scores |-> state.guesses[appealOpenFor].scores]}
    /\ UNCHANGED <<state, submitting, awaitingNextCategory, currentInput, inflight,
                   timers, appealOpenFor, history>>

\* submitAppeal, up to the fetch (Submit button or Enter in the dialog, both
\* off while appealSubmitting), with a sentence typed
SubmitAppeal ==
    /\ appealOpenFor # NoAppeal /\ ~appealSubmitting
    /\ ~state.guesses[appealOpenFor].appealed
    /\ state.guesses[appealOpenFor].scores # NoScores
    /\ appealSubmitting' = TRUE
    /\ appealError' = NoError
    /\ appealInflight' = appealInflight \cup
                           {[roundIndex |-> appealOpenFor,
                             scores |-> state.guesses[appealOpenFor].scores]}
    /\ UNCHANGED <<state, submitting, awaitingNextCategory, currentInput, inflight,
                   timers, appealOpenFor, history>>

\* submitAppeal after the fetch resolved with 200
AppealArrives ==
    /\ \E req \in appealInflight :
         /\ \E newScores \in AppealScores(req.scores) :
              state' = applyAppealResult(state, req.roundIndex, newScores)
         /\ appealInflight' = appealInflight \ {req}
         /\ history' = [history EXCEPT
                            !.appealedSlots = @ \cup {req.roundIndex},
                            !.reapplied = @ \/ req.roundIndex \in history.appealedSlots]
    /\ appealOpenFor' = NoAppeal
    /\ appealSubmitting' = FALSE
    /\ currentInput' = SyncInput(state')
    /\ UNCHANGED <<submitting, awaitingNextCategory, inflight, timers, appealError>>

\* A catch branch that spends the appeal and closes the dialog as a reply does
AppealFailsSpendsAppeal ==
    /\ \E req \in appealInflight :
         /\ state' = applyAppealResult(state, req.roundIndex, req.scores)
         /\ appealInflight' = appealInflight \ {req}
    /\ appealOpenFor' = NoAppeal
    /\ appealSubmitting' = FALSE
    /\ appealError' = "Appeal could not be processed. Try again later."
    /\ UNCHANGED <<submitting, awaitingNextCategory, currentInput, inflight,
                   timers, history>>

\* submitAppeal, catch branch: the fetch rejected or the status was not 2xx
AppealFails ==
    /\ \E req \in appealInflight : appealInflight' = appealInflight \ {req}
    /\ appealSubmitting' = FALSE
    /\ appealError' = "Appeal could not be processed. Try again later."
    /\ UNCHANGED <<state, submitting, awaitingNextCategory, currentInput, inflight,
                   timers, appealOpenFor, history>>

\* The page is loaded again (the mount effect): the save the persist effect wrote
\* for the current state is restored when it is a daily game whose dateKey is
\* still todayKey(), else a fresh daily game starts; the component's own state
\* starts over and the replies and timers of the page before are gone
Reload ==
    /\ \E savedDay \in {MaxDay - 1, MaxDay} :
         /\ state' = loadState(Persisted(state, todayKey(savedDay)), MaxDay).game
         /\ history' = IF state' = state THEN history
                        ELSE [NoHistory EXCEPT !.resets = history.resets]
    /\ submitting' = FALSE /\ awaitingNextCategory' = FALSE
    /\ inflight' = NoRequest /\ timers' = 0
    /\ appealOpenFor' = NoAppeal /\ appealSubmitting' = FALSE
    /\ appealInflight' = NoAppealRequest /\ appealError' = NoError
    /\ currentInput' = SyncInput(state')

GameIdle ==
    /\ state = createNewDailyState("off")
    /\ submitting = FALSE /\ awaitingNextCategory = FALSE /\ currentInput = ""
    /\ inflight = NoRequest /\ timers = 0 /\ history = NoHistory
    /\ appealOpenFor = NoAppeal /\ appealSubmitting = FALSE /\ appealInflight = NoAppealRequest
    /\ appealError = NoError

\* After mount with no same-day save: a fresh daily game
GameInit ==
    /\ state = createNewDailyState("daily")
    /\ submitting = FALSE /\ awaitingNextCategory = FALSE /\ currentInput = ""
    /\ inflight = NoRequest /\ timers = 0 /\ history = NoHistory
    /\ appealOpenFor = NoAppeal /\ appealSubmitting = FALSE /\ appealInflight = NoAppealRequest
    /\ appealError = NoError

\* ---------------------------------------------------------------------
\* Specifications
\* ---------------------------------------------------------------------

\* The game
Init == GameInit /\ GatewayIdle /\ SelectorIdle /\ LoadIdle /\ AdvanceIdle

Next ==
    \/ HandleSubmitGuess /\ UNCHANGED <<gwVars, pkVars, hookVars>>
    \/ ScoreArrives /\ UNCHANGED <<gwVars, pkVars, hookVars>>
    \/ ScoreFails /\ UNCHANGED <<gwVars, pkVars, hookVars>>
    \/ AdvanceTimer /\ UNCHANGED <<gwVars, pkVars, hookVars>>
    \/ PassButton /\ UNCHANGED <<gwVars, pkVars, hookVars>>
    \/ ContinueButton /\ UNCHANGED <<gwVars, pkVars, hookVars>>
    \/ ResetDaily /\ UNCHANGED <<gwVars, pkVars, hookVars>>
    \/ ForceRandomDebugGame /\ UNCHANGED <<gwVars, pkVars, hookVars>>
    \/ Reload /\ UNCHANGED <<gwVars, pkVars, hookVars>>

Spec == Init /\ [][Next]_vars

\* One browser on the production controls: play, the appeal dialog and page
\* loads, the debug buttons left alone
NextSession ==
    \/ HandleSubmitGuess /\ UNCHANGED <<gwVars, pkVars, hookVars>>
    \/ ScoreArrives /\ UNCHANGED <<gwVars, pkVars, hookVars>>
    \/ ScoreFails /\ UNCHANGED <<gwVars, pkVars, hookVars>>
    \/ AdvanceTimer /\ UNCHANGED <<gwVars, pkVars, hookVars>>
    \/ PassButton /\ UNCHANGED <<gwVars, pkVars, hookVars>>
    \/ ContinueButton /\ UNCHANGED <<gwVars, pkVars, hookVars>>
    \/ OpenAppeal /\ UNCHANGED <<gwVars, pkVars, hookVars>>
    \/ CancelAppeal /\ UNCHANGED <<gwVars, pkVars, hookVars>>
    \/ SubmitAppeal /\ UNCHANGED <<gwVars, pkVars, hookVars>>
    \/ SubmitAppealInvalid /\ UNCHANGED <<gwVars, pkVars, hookVars>>
    \/ AppealArrives /\ UNCHANGED <<gwVars, pkVars, hookVars>>
    \/ AppealFails /\ UNCHANGED <<gwVars, pkVars, hookVars>>
    \/ Reload /\ UNCHANGED <<gwVars, pkVars, hookVars>>

SpecSession == Init /\ [][NextSession]_vars

\* The mount effect
InitLoad == LoadInit /\ GatewayIdle /\ SelectorIdle /\ GameIdle /\ AdvanceIdle

NextLoad == Load /\ UNCHANGED <<gwVars, pkVars, gameVars, atVars>>

SpecLoad == InitLoad /\ [][NextLoad]_vars

\* Turn advancement: advanceTurn of the 5-guess hook on any board, or a game
\* of the 3x3 variant
InitTurn ==
    /\ GatewayIdle /\ SelectorIdle /\ GameIdle /\ LoadIdle
    /\ \/ Advance5Init /\ Game3Idle
       \/ Advance5Idle /\ Game3Init

NextTurn ==
    \/ AdvanceTurn5 /\ UNCHANGED <<gwVars, pkVars, gameVars, ldVars, game3Vars>>
    \/ HandleSubmitGuess3 /\ UNCHANGED <<gwVars, pkVars, gameVars, ldVars, at5Vars>>
    \/ ScoreArrives3 /\ UNCHANGED <<gwVars, pkVars, gameVars, ldVars, at5Vars>>
    \/ ScoreFails3 /\ UNCHANGED <<gwVars, pkVars, gameVars, ldVars, at5Vars>>
    \/ PassButton3 /\ UNCHANGED <<gwVars, pkVars, gameVars, ldVars, at5Vars>>
    \/ ContinueButton3 /\ UNCHANGED <<gwVars, pkVars, gameVars, ldVars, at5Vars>>
    \/ ResetDaily3 /\ UNCHANGED <<gwVars, pkVars, gameVars, ldVars, at5Vars>>
    \/ ForceRandomDebugGame3 /\ UNCHANGED <<gwVars, pkVars, gameVars, ldVars, at5Vars>>
    \/ Reload3 /\ UNCHANGED <<gwVars, pkVars, gameVars, ldVars, at5Vars>>

SpecTurn == InitTurn /\ [][NextTurn]_vars

\* The appeal endpoints
InitAppeal == GatewayRequest({"appeal", "appeal2"}) /\ SelectorIdle /\ GameIdle /\ LoadIdle /\ AdvanceIdle

NextAppeal ==
    \/ AppealSingle /\ UNCHANGED <<pkVars, gameVars, hookVars>>
    \/ AppealDual /\ UNCHANGED <<pkVars, gameVars, hookVars>>

SpecAppeal == InitAppeal /\ [][NextAppeal]_vars

\* The scoring endpoints
InitScore == GatewayRequest({"score", "score2"}) /\ SelectorIdle /\ GameIdle /\ LoadIdle /\ AdvanceIdle

NextScore ==
    \/ ScoreSingle /\ UNCHANGED <<pkVars, gameVars, hookVars>>
    \/ ScoreDual /\ UNCHANGED <<pkVars, gameVars, hookVars>>

SpecScore == InitScore /\ [][NextScore]_vars

\* The selector
InitPick == SelectorInit /\ GatewayIdle /\ GameIdle /\ LoadIdle /\ AdvanceIdle

NextPick ==
    \/ PickDaily /\ UNCHANGED <<gwVars, gameVars, hookVars>>
    \/ PickDailyAgain /\ UNCHANGED <<gwVars, gameVars, hookVars>>

SpecPick == InitPick /\ [][NextPick]_vars

\* ---------------------------------------------------------------------
\* Properties of the appeal endpoints (under SpecAppeal)
\* ---------------------------------------------------------------------

\* An appeal call answered with 200
AppealAnswered == gwPc = "done" /\ gwEndpoint \in {"appeal", "appeal2"} /\ gwOut.status = 200

\* The reply text is neither JSON nor carries any score or reasoning field
NothingToExtract(rep) ==
    /\ rep.form \in {"leading", "trailing", "empty"}
    /\ rep.s1.kind = "absent" /\ rep.s2.kind = "absent"
    /\ rep.r1.kind = "absent" /\ rep.r2.kind = "absent"

\* C1: every appeal call answered with scores returns, for each adjective, a
\* new score that is at least the original score the request carried,
\* whatever the reply text and whatever the original score.
C1_NewScoreAtLeastOriginal ==
    AppealAnswered =>
        /\ gwOut.score1 >= gwOrig[1]
        /\ gwEndpoint = "appeal2" => gwOut.score2 >= gwOrig[2]

\* C7: in the dual appeal, with whole original scores in 1..10 and a JSON
\* reply whose two new scores are numbers, each returned score is
\* min(10, max(original, round(model value))), each from its own field.
C7_DualAppealClamp ==
    (/\ AppealAnswered /\ gwEndpoint = "appeal2"
     /\ \A i \in 1..2 : gwOrig[i] \in {10 * k : k \in 1..10}
     /\ gwReply.form = "json"
     /\ gwReply.s1.kind = "num" /\ JsonNumberOk(gwReply.s1)
     /\ gwReply.s2.kind = "num" /\ JsonNumberOk(gwReply.s2))
    => /\ gwOut.score1 = Min(100, Max(gwOrig[1], MathRound(LiteralValue(gwReply.s1))))
       /\ gwOut.score2 = Min(100, Max(gwOrig[2], MathRound(LiteralValue(gwReply.s2))))

\* C7, its case: originals 6 and 4, reply {newScore1: 5, newScore2: 9},
\* answered with 6 and 9 and accepted = true
C7_Witness ==
    /\ AppealAnswered /\ gwEndpoint = "appeal2" /\ gwOrig = <<60, 40>>
    /\ gwReply.form = "json"
    /\ gwReply.s1 = [kind |-> "num", neg |-> FALSE, digits |-> <<5>>, half |-> FALSE]
    /\ gwReply.s2 = [kind |-> "num", neg |-> FALSE, digits |-> <<9>>, half |-> FALSE]
    /\ gwReply.acc = "absent"
    /\ gwOut.score1 = 60 /\ gwOut.score2 = 90 /\ gwOut.accepted = TRUE

\* C8: in every appeal response, accepted is true exactly when a returned
\* score is above its original or the reply text carries accepted: true.
C8_AcceptedIff ==
    AppealAnswered =>
        (gwOut.accepted <=>
            \/ gwOut.score1 > gwOrig[1]
            \/ gwEndpoint = "appeal2" /\ gwOut.score2 > gwOrig[2]
            \/ gwReply.form \in {"json", "leading", "trailing"} /\ gwReply.acc = "true")

\* C9: when nothing can be taken from the appeal reply, the response holds
\* the original score(s), accepted = false, and the raw reply as reasoning.
C9_TotalParseFailure ==
    (AppealAnswered /\ NothingToExtract(gwReply)) =>
        /\ gwOut.score1 = gwOrig[1]
        /\ gwOut.accepted = FALSE
        /\ gwOut.reasoning1 = RawText(gwReply)
        /\ gwEndpoint = "appeal2" =>
              gwOut.score2 = gwOrig[2] /\ gwOut.reasoning2 = RawText(gwReply)

\* C24: when the reply is not valid JSON and carries a new score field, the
\* returned score is min(10, max(original, the whole integer written in the
\* field)), the integer read as the scoring fallback reads it (every digit of
\* the run): a field of 10 over an original below 10 returns 10.
C24_RegexFallbackFullInteger ==
    (AppealAnswered /\ ~JsonParses(gwReply) /\ gwReply.form \in {"json", "leading", "trailing"}) =>
        /\ RegexMatches(gwReply.s1) =>
              gwOut.score1 = Min(100, Max(gwOrig[1], DigitRun(gwReply.s1)))
        /\ (gwEndpoint = "appeal2" /\ RegexMatches(gwReply.s2)) =>
              gwOut.score2 = Min(100, Max(gwOrig[2], DigitRun(gwReply.s2)))

\* ---------------------------------------------------------------------
\* Properties of the scoring endpoints (under SpecScore)
\* ---------------------------------------------------------------------

ScoreAnswered == gwPc = "done" /\ gwEndpoint \in {"score", "score2"} /\ gwOut.status = 200

\* Whole numbers 1..10, in tenths
WholeScores == {10 * k : k \in 1..10}

\* C2: every score a scoring endpoint returns is a whole number in 1..10,
\* whatever the reply text.
C2_ScoresInRange ==
    ScoreAnswered =>
        /\ gwOut.score1 \in WholeScores
        /\ gwEndpoint = "score2" => gwOut.score2 \in WholeScores

\* C2, its cases: a JSON score with a fraction below the range next to a
\* digit run above it, both brought into the range
C2_Witness ==
    /\ ScoreAnswered /\ gwEndpoint = "score2"
    /\ gwReply.form = "trailing"
    /\ gwReply.s1.kind = "num" /\ DigitsValue(gwReply.s1.digits) > 10
    /\ gwReply.s2.kind = "absent"
    /\ gwOut.score1 = 100 /\ gwOut.score2 = 50

\* C6: a scoring reply with nothing to extract is answered with 200, the
\* score 5 and the empty reasoning (both scores, both reasonings in the dual
\* variant).
C6_UnparsableGivesMidpoint ==
    (/\ gwPc = "done" /\ gwEndpoint \in {"score", "score2"} /\ gwFields
     /\ NothingToExtract(gwReply))
    => /\ gwOut.status = 200
       /\ gwOut.score1 = 50 /\ gwOut.reasoning1 = <<>>
       /\ gwEndpoint = "score2" => gwOut.score2 = 50 /\ gwOut.reasoning2 = <<>>

\* ---------------------------------------------------------------------
\* Properties of the selector (under SpecPick)
\* ---------------------------------------------------------------------

\* The call returned (once or twice)
Picked == pkPc \in {"done", "again"}

\* The key names one of the first 14 days from the epoch and count is the
\* length of a preset pair
PresetCase == pkArgs.dated /\ pkArgs.real /\ pkArgs.off \in 0..13 /\ pkArgs.count = 2

Distinct(seq) == \A i, j \in 1..Len(seq) : i # j => seq[i] # seq[j]

Members(seq) == {seq[i] : i \in 1..Len(seq)}

\* C3 as stated: for a date-formatted key, any count and any pool, the
\* result has exactly count entries, pairwise distinct, all from the pool.
C3_CountDistinctFromPool ==
    (Picked /\ pkArgs.dated) =>
        /\ Len(pkOut) = pkArgs.count
        /\ Distinct(pkOut)
        /\ Members(pkOut) \subseteq Members(pkArgs.pool0)

\* C3, amended: for a date-formatted key outside the preset case and a pool
\* without repeated entries, the result is the whole pool when the pool has
\* at most count entries, and otherwise exactly count pairwise distinct
\* entries of the pool.
C3_DrawFromPool ==
    (Picked /\ pkArgs.dated /\ ~PresetCase /\ Distinct(pkArgs.pool0)) =>
        /\ Distinct(pkOut)
        /\ Members(pkOut) \subseteq Members(pkArgs.pool0)
        /\ Len(pkOut) = Min(pkArgs.count, Len(pkArgs.pool0))

\* C3, its case: two words drawn from a pool of three different words
C3_Witness ==
    /\ pkPc = "done" /\ pkArgs.dated /\ ~PresetCase
    /\ pkArgs.count = 2 /\ Len(pkArgs.pool0) = 3 /\ Distinct(pkArgs.pool0)
    /\ Len(pkOut) = 2 /\ pkOut[1] # pkOut[2]

\* C4: on the days at offsets 0..13 from 2025-12-10, with any suffix on the
\* key and count 2, the result is that day's preset pair in order; with
\* another count, an earlier day or a day at offset 14 or later, the result
\* is the draw seeded by the key.
C4_PresetWindow ==
    (Picked /\ pkArgs.dated /\ pkArgs.real) =>
        IF pkArgs.off \in 0..13 /\ pkArgs.count = 2
        THEN pkOut = PRESET_PAIRS[pkArgs.off + 1]
        ELSE pkOut = IF Len(pkArgs.pool0) <= pkArgs.count THEN pkArgs.pool0
                     ELSE DrawLoop(pkArgs.count, HashString(pkArgs.key), pkArgs.pool0, <<>>)

\* C4, its cases: the last preset day with the versioned key gives the last
\* pair
C4_Witness ==
    /\ pkPc = "done" /\ pkArgs.dated /\ pkArgs.real
    /\ pkArgs.off = 13 /\ pkArgs.count = 2 /\ Len(pkArgs.key) > 10
    /\ pkOut = <<"transparent", "dramatic">>

\* C5 as stated: for any key, a second call with the same arguments returns
\* what the first returned, and the pool is as it was handed in.
C5_SameInputsSameOutput ==
    pkPc = "again" => pkOut = pkPrev /\ pkArgs.pool = pkArgs.pool0

\* C5, amended: for a key that starts with a date, a second call with the
\* same arguments returns what the first returned; for every key the pool is
\* as it was handed in after each call.
C5_DatedKeysDeterministic ==
    /\ Picked => pkArgs.pool = pkArgs.pool0
    /\ (pkPc = "again" /\ pkArgs.dated) => pkOut = pkPrev

\* C5, its case: a seeded draw (not the preset, not the whole pool) made twice
C5_Witness ==
    /\ pkPc = "again" /\ pkArgs.dated /\ ~PresetCase
    /\ pkArgs.count > 0 /\ Len(pkArgs.pool0) > pkArgs.count
    /\ pkOut = pkPrev /\ Len(pkOut) = pkArgs.count

\* The reference of C21: exact unsigned 32-bit arithmetic on <<high, low>>
RefHashStep(h, code) ==
    LET lo == h[2] * 31 + code
        hi == h[1] * 31 + (lo \div Half)
    IN  <<hi % Half, lo % Half>>

RECURSIVE RefSeed(_, _)
RefSeed(h, str) == IF str = <<>> THEN h ELSE RefSeed(RefHashStep(h, Head(str)), Tail(str))

RefLcgStep(h) ==
    LET lo == h[2] * 26125 + 62303
        hi == h[1] * 26125 + h[2] * 25 + 15470 + (lo \div Half)
    IN  <<hi % Half, lo % Half>>

\* count times: step the seed, take and remove the element at seed mod size
RECURSIVE RefDraw(_, _, _)
RefDraw(left, seed, pool) ==
    IF left <= 0 THEN <<>>
    ELSE LET s == RefLcgStep(seed)
             idx == ((s[1] % Len(pool)) * (Half % Len(pool)) + s[2]) % Len(pool)
         IN  <<pool[idx + 1]>> \o
             RefDraw(left - 1, s, [i \in 1..(Len(pool) - 1) |-> IF i <= idx THEN pool[i] ELSE pool[i + 1]])

\* The seed string of the draw: the key when it starts with a date, else the clock
SeedStrings == IF pkArgs.dated THEN {pkArgs.key} ELSE Clocks

\* 32-bit values at the ends of the range and of each half
EdgeHashes ==
    {<<hi, lo>> : hi \in {0, 1, 32767, 32768, 65534, 65535}, lo \in {0, 1, 32767, 32768, 65534, 65535}}

\* Character codes (UTF-16 code units) at the ends of the range
EdgeCodes == {0, 45, 57, 118, 65535}

\* Neither step of the code differs from the exact one at these values
StepsExactAtEdges ==
    \A h \in EdgeHashes :
        /\ LcgStep(h) = RefLcgStep(h)
        /\ \A code \in EdgeCodes : HashStep(h, code) = RefHashStep(h, code)

\* C21: outside the preset path, with more than count words in the pool, the
\* result is the reference draw in exact unsigned 32-bit arithmetic (seed =
\* fold of (seed*31 + code) mod 2^32 over the seed string, then count times
\* seed = (seed*1664525 + 1013904223) mod 2^32 and the element at seed mod
\* the remaining size taken and removed); and at the largest and smallest
\* 32-bit values neither step of the code differs from the exact one.
C21_DrawMatchesReference ==
    /\ (Picked /\ ~PresetCase /\ Len(pkArgs.pool0) > pkArgs.count) =>
           \E str \in SeedStrings :
               pkOut = RefDraw(pkArgs.count, RefSeed(<<0, 0>>, str), pkArgs.pool0)
    /\ StepsExactAtEdges

\* C21, its case: three words drawn from four with a versioned date key
\* outside the preset window
C21_Witness ==
    /\ pkPc = "done" /\ pkArgs.dated /\ ~PresetCase /\ Len(pkArgs.key) > 10
    /\ pkArgs.count = 3 /\ Len(pkArgs.pool0) = 4
    /\ pkOut = RefDraw(3, RefSeed(<<0, 0>>, pkArgs.key), pkArgs.pool0)
    /\ Len(pkOut) = 3

\* C22 as stated: for every key and count, a pool of at most count words is
\* returned whole, in the order given.
C22_SmallPoolReturnedWhole ==
    (Picked /\ Len(pkArgs.pool0) <= pkArgs.count) => pkOut = pkArgs.pool0

\* C22, amended: outside the preset case a pool of at most count words is
\* returned whole, in the order given, for keys with and without a date; in
\* the preset case the result is the day's preset pair whatever the pool.
C22_SmallPoolOutsidePreset ==
    (Picked /\ Len(pkArgs.pool0) <= pkArgs.count) =>
        pkOut = IF PresetCase THEN PRESET_PAIRS[pkArgs.off + 1] ELSE pkArgs.pool0

\* C22, its case: a preset day asked for three words, with a pool of exactly
\* three different words
C22_Witness ==
    /\ pkPc = "done" /\ pkArgs.dated /\ pkArgs.real /\ pkArgs.off \in 0..13
    /\ pkArgs.count = 3 /\ Len(pkArgs.pool0) = 3 /\ Distinct(pkArgs.pool0)
    /\ pkOut = pkArgs.pool0

\* ---------------------------------------------------------------------
\* Properties of the game (under Spec)
\* ---------------------------------------------------------------------

\* C10: in a game played without the debug buttons, once a guess scored 10
\* and 10 no later slot is empty (the empty ones got a pass marker in the
\* update that recorded the score), and no guess is submitted to scoring any
\* more for a slot that holds the maximum or a pass marker.
C10_PerfectScoreLocks ==
    history.resets = 0 =>
        /\ \A r \in Slots :
             (state.guesses[r].scores = <<10, 10>> /\ ~state.guesses[r].isPass) =>
                 \A j \in Slots : j > r => state.guesses[j].noun # ""
        /\ ~history.lockedSubmit

\* C11: in every state of a game, a pass submitted on a slot that is already
\* passed (by a pass, by the auto-pass of the remaining slots or by the
\* perfect-score fill) changes nothing of the game state.
C11_PassOnPassedIsNoOp ==
    \A r \in Slots : state.guesses[r].isPass => submitPassLocally(state, r) = state

NewGame == state' = createNewDailyState(state'.mode) /\ state' # state

\* C13: a game starts with one appeal token; no step of a game raises
\* appealsRemaining, and it is never below 0.
C13_AppealsOnlyDecrease ==
    /\ state.appealsRemaining = 1
    /\ [](state.appealsRemaining >= 0)
    /\ [][IF NewGame THEN state'.appealsRemaining = 1
          ELSE state'.appealsRemaining <= state.appealsRemaining]_vars

\* the token is spent on a complete game
C13_Witness == isCompleteOf(state) /\ state.appealsRemaining = 0

\* C14: the step that applies a successful appeal reply leaves appealsRemaining
\* at 0 and the appealed guess marked, whether the scores moved or not, and no
\* later step of the same game clears an appealed mark.
C14_AppealConsumesAndMarks ==
    [][/\ AppealArrives =>
            /\ state'.appealsRemaining = 0
            /\ \E r \in Slots : /\ ~state.guesses[r].appealed
                                /\ state'.guesses[r].appealed
       /\ ~NewGame =>
            \A r \in Slots : state.guesses[r].appealed => state'.guesses[r].appealed]_vars

\* a rejected appeal (scores as before) is on the board, the token gone
C14_Witness ==
    \E r \in Slots :
        /\ state.guesses[r].appealed
        /\ state.guesses[r].scores = <<7, 7>>
        /\ state.appealsRemaining = 0
        /\ history.appealedSlots = {r}

\* C15: in every state, whatever the order of opening, cancelling and
\* submitting the dialog and of the replies, no guess of the current game had
\* an appeal result applied twice and at most one guess had one applied (and
\* at most one carries the appealed mark).
C15_AtMostOneAppeal ==
    /\ ~history.reapplied
    /\ Cardinality(history.appealedSlots) <= 1
    /\ Cardinality({r \in Slots : state.guesses[r].appealed}) <= 1

\* an appeal awaits its reply while the dialog, cancelled and opened again,
\* shows another guess
C15_Witness ==
    /\ appealInflight # NoAppealRequest
    /\ appealOpenFor # NoAppeal
    /\ \A req \in appealInflight : req.roundIndex # appealOpenFor

\* C16: a scoring request is pending only while submitting is set, and no
\* step of handleSubmitGuess starts a request while one is pending.
C16_OneScoringRequest ==
    /\ [](inflight.active => submitting)
    /\ [][HandleSubmitGuess => ~inflight.active /\ inflight'.active]_vars

\* a request is pending while the input row, with a text in it, is on screen
C16_Witness == inflight.active /\ InputVisible /\ currentInput # ""

\* C17: the step of a failed scoring request leaves the submitted noun in its
\* slot with no scores, moves the turn on (at once, or by the 500 ms timer it
\* sets), clears submitting and leaves no request pending.
C17_FailedScoreRecordedUnscored ==
    [][ScoreFails =>
         /\ state'.guesses[inflight.roundIndex].noun = inflight.noun
         /\ state'.guesses[inflight.roundIndex].scores = NoScores
         /\ state'.currentTurnIndex > state.currentTurnIndex \/ timers' > timers
         /\ ~submitting'
         /\ ~inflight'.active]_vars

\* A save with every field of a daily GameState in place
WellFormedDailySave(stored) ==
    /\ stored.form = "object"
    /\ stored.adjectives = 2 /\ stored.guessesIsArray
    /\ stored.mode = "daily"
    /\ stored.dateKey.isString
    /\ stored.currentTurnIndex.isNumber /\ stored.appealsRemaining.isNumber

\* C18: after a load the state is the saved game exactly when the save is a
\* well-formed daily save whose dateKey is today's key with the current seed
\* version; in every other case it is a fresh game (turn 0, all slots empty,
\* one appeal).
C18_RestoreOnlySameDaySave ==
    ldPc = "done" =>
        IF WellFormedDailySave(ldStored) /\ ldStored.dateKey = StringKey(todayKey(ldToday))
        THEN ldOut.game = [mode |-> "daily", guesses |-> ldStored.guesses,
                           currentTurnIndex |-> ldStored.currentTurnIndex.val,
                           appealsRemaining |-> ldStored.appealsRemaining.val]
        ELSE ldOut = [dateKey |-> todayKey(ldToday), game |-> createNewDailyState("daily")]

\* The highest score1 + score2 of the guesses that are no pass, 0 without one
HighestNonPassed(guesses) ==
    MaxOf({0} \cup {Combined(guesses[i]) : i \in {j \in Slots : ~guesses[j].isPass}})

\* C19: in every state of the game the best index is the earliest guess that
\* is no pass and has the highest sum of the guesses that are no pass, -1
\* when that sum is not positive, and totalScore is that sum.
C19_BestIsHighestNonPassed ==
    LET top == HighestNonPassed(state.guesses)
    IN  /\ getBestIndex(state.guesses) =
               IF top <= 0 THEN -1
               ELSE MinOf({i \in Slots : /\ ~state.guesses[i].isPass
                                        /\ Combined(state.guesses[i]) = top})
        /\ totalScore(state) = top

\* Where the claim puts the 5-guess turn: one on, then past the passed slots
\* that follow directly, 5 at most
ExpectedNext5(st) ==
    MinOf({j \in 1..maxTurns :
              /\ j >= Min(st.currentTurnIndex + 1, maxTurns)
              /\ j = maxTurns \/ ~st.guesses[j].isPass})

\* A category is locked: it holds a passed slot or a score of 10
ClaimLocked(guesses, c) ==
    \E ri \in Rounds : guesses[c][ri].isPass \/ guesses[c][ri].score = 10

\* Where the claim puts the 3x3 turn: one on and, while that lies in a locked
\* category, the first slot of the next category, 9 at most
ExpectedNext3(guesses, from) ==
    MinOf({j \in 1..maxTurns3 :
              /\ j >= Min(from + 1, maxTurns3)
              /\ \/ j = maxTurns3
                 \/ (j = from + 1 \/ j % 3 = 0) /\ ~ClaimLocked(guesses, j \div 3)})

\* Index idx is the first empty slot of a category that is not locked
FirstEmptyOfUnlocked(guesses, idx) ==
    /\ ~ClaimLocked(guesses, idx \div 3)
    /\ guesses[idx \div 3][idx % 3].noun = ""
    /\ \A ri \in Rounds : ri < idx % 3 => guesses[idx \div 3][ri].noun # ""

\* a step of the 3x3 game in which advanceTurn ran (the turn moved, no new game)
Advanced3 ==
    /\ state3'.currentTurnIndex # state3.currentTurnIndex
    /\ ~(state3' = createNewDailyState3(state3'.mode))

\* C20: every 3x3 step that advances the turn puts it one on and past the
\* locked categories, and the index it ends on is 9 or the first empty slot of
\* an unlocked category; the 5-guess advanceTurn puts the turn one on and past
\* the passed slots that follow directly.
C20_AdvanceTurn ==
    /\ [](atPc = "done" => atNext = ExpectedNext5(atPrev))
    /\ [][Advanced3 =>
            /\ state3'.currentTurnIndex =
                   ExpectedNext3(state3'.guesses, state3.currentTurnIndex)
            /\ \/ state3'.currentTurnIndex = maxTurns3
               \/ FirstEmptyOfUnlocked(state3'.guesses, state3'.currentTurnIndex)]_vars

\* ---------------------------------------------------------------------
\* Properties of a played game (under SpecSession unless said otherwise)
\* ---------------------------------------------------------------------

\* C23: the step of the Pass button leaves the slot of the turn with noun
\* "PASS", scores [0, 0] and isPass set; and no later step of the same game
\* (submit, score, advance, appeal, page load) changes the noun, the scores
\* or isPass of a slot that carries a pass.
C23_PassIsTerminal ==
    [][/\ PassButton =>
            LET g == state'.guesses[roundIndexOf(state)]
            IN  g.noun = "PASS" /\ g.scores = <<0, 0>> /\ g.isPass
       /\ ~NewGame =>
            \A r \in Slots :
                (state.guesses[r].isPass /\ state.guesses[r].scores = <<0, 0>>) =>
                    /\ state'.guesses[r].noun = state.guesses[r].noun
                    /\ state'.guesses[r].scores = state.guesses[r].scores
                    /\ state'.guesses[r].isPass]_vars

\* C25: in every state of a game that is not complete, the player has an
\* action (submit, Pass or Continue is enabled) or the game is about to move
\* by itself (a scoring reply or a delayed advance is pending); so after a
\* pass at any round index the way to completion stays open without a reset
\* or a page load.
C25_AlwaysAnEnabledAction ==
    ~isCompleteOf(state) =>
        \/ ENABLED HandleSubmitGuess
        \/ ENABLED PassButton
        \/ ENABLED ContinueButton
        \/ inflight.active
        \/ timers > 0

\* C26 (under Spec): in every state every slot before the current turn holds
\* a noun or a pass, through delayed advances and after the debug resets.
C26_SlotsBeforeTurnPlayed ==
    \A i \in Slots :
        i < state.currentTurnIndex => (state.guesses[i].noun # "" \/ state.guesses[i].isPass)

\* C27 (under Spec): after a debug reset, while the board is still the fresh
\* one (all slots empty and unscored, turn 0, one appeal), the arrival of a
\* reply to a request of the game before leaves the board as it is.  A
\* pending appeal is always of the game before (a fresh board offers none);
\* a pending scoring request is when it names a slot other than 0.
C27_LateReplyNotApplied ==
    [][(/\ history.resets > 0
        /\ state = createNewDailyState(state.mode)
        /\ \/ (ScoreArrives \/ ScoreFails) /\ inflight.roundIndex # 0
           \/ AppealArrives
           \/ AppealFails)
       => state' = state]_vars

\* A slot holds the noun of a submit that resolved (scored or failed)
Submitted(g) == g.noun \notin {"", "PASS", "Perfect Score Achieved"}

\* C28: no scoring request is started for a slot that holds the noun of a
\* resolved submit, and no reply changes the noun or the scores such a slot
\* holds, the 500 ms before a delayed advance included.
C28_OneRequestPerSlot ==
    [][/\ HandleSubmitGuess => ~Submitted(state.guesses[roundIndexOf(state)])
       /\ (ScoreArrives \/ ScoreFails) =>
            \A r \in Slots :
                Submitted(state.guesses[r]) =>
                    /\ state'.guesses[r].noun = state.guesses[r].noun
                    /\ state'.guesses[r].scores = state.guesses[r].scores]_vars

====
